---- MODULE Spec2Model ----
(***************************************************************************)
(* A model of sharelatex-git.py: one run of go() over a working directory  *)
(* that holds the state file '.sharelatex-git', the exclusion file         *)
(* '.gitignore' of the enclosing git repository and the extracted project. *)
(*                                                                         *)
(* Strings whose characters matter (identifiers, the state file, the       *)
(* operator's answers) are sequences of one-character strings.  Texts that *)
(* the program only compares piecewise (the exclusion file, git's output)  *)
(* are sequences of tokens, chosen so that no token is a concatenation of  *)
(* other tokens: two token sequences are equal exactly when the texts are. *)
(***************************************************************************)
EXTENDS Integers, Sequences, FiniteSets, TLC

VARIABLES
    pc,                   \* the position of the run in go() and its callees
    argv,                 \* the positional argument of the command line, or None
    now,                  \* the wall clock read by get_timestamp() (line 44)
    given_id,             \* the id parse_input() handed to go() (line 413)
    id,                   \* go()'s variable id (line 344, reassigned at 345)
    message,              \* go()'s parameter message
    push,                 \* go()'s parameter push
    sharelatex_push_flag, \* go()'s parameter sharelatex_push_flag
    dont_commit,          \* go()'s parameter dont_commit
    saved_id,             \* determine_id()'s local saved_id
    ans,                  \* determine_id()'s local ans
    prompts,              \* how many times the operator was asked (lines 265-268)
    state_file,           \* content of '.sharelatex-git', or None when missing
    gitignore,            \* content of <toplevel>/.gitignore, or None when missing
    repo,                 \* whether the current directory is inside a git work tree
    zip_file,             \* whether 'sharelatex.zip' exists
    archive,              \* the entries of the archive this run downloaded
    cwd,                  \* the project files present in the current directory
    project_title,        \* go()'s variable project_title
    out,                  \* files_changed()'s local out
    changed,              \* what files_changed() returned to go()
    cmds,                 \* the shell commands run_cmd() has executed, in order
    log                   \* the errors and warnings the Logger has printed

\* go()'s parameters other than id: no step assigns them.
args == <<given_id, message, push, sharelatex_push_flag, dont_commit>>
\* determine_id()'s own variables.
resolver == <<saved_id, ans, prompts>>
\* The project files: the download, its entries, the extracted tree.
tree == <<zip_file, archive, cwd, project_title>>
\* The change detection.
detection == <<out, changed>>

\* What the run has shown of itself: its commands and its log.
trail == <<cmds, log>>

vars == <<pc, argv, now, id, args, resolver, state_file, gitignore, repo, tree,
          detection, trail>>

-----------------------------------------------------------------------------
(* Bounds of the model.                                                    *)

MaxIdLen == 2        \* longest identifier on the command line
MaxFileLen == 2      \* longest content of the state file
MaxAnsLen == 2       \* longest answer of the operator
MaxPrompts == 2      \* most prompts of one conflict resolution
MaxOutLen == 2       \* longest output of a git command, in tokens
MaxIgnoreLen == 3    \* longest exclusion file, in tokens
MaxUpdates == 3      \* most updates of one exclusion file

-----------------------------------------------------------------------------
(* Python values.                                                          *)

\* Python's None.  No string is equal to it: strings are sequences of
\* one-character strings or of tokens, and "None" is neither.
None == <<"None">>

\* Python's truth value of an optional string: None and '' are false.
Truthy(x) == x # None /\ x # <<>>

SeqsUpTo(S, n) == UNION {[1..k -> S] : k \in 0..n}

\* The whitespace characters of the model's alphabets.
Whitespace == {" ", "\n"}

RECURSIVE lstrip(_)
lstrip(s) ==
    IF s # <<>> /\ Head(s) \in Whitespace THEN lstrip(Tail(s)) ELSE s

RECURSIVE rstrip(_)
rstrip(s) ==
    IF s # <<>> /\ s[Len(s)] \in Whitespace
    THEN rstrip(SubSeq(s, 1, Len(s) - 1))
    ELSE s

\* str.strip()
strip(s) == rstrip(lstrip(s))

\* file.readline(): the text up to and including the first line terminator.
RECURSIVE readline(_)
readline(s) ==
    IF s = <<>> THEN <<>>
    ELSE IF Head(s) = "\n" THEN <<"\n">>
    ELSE <<Head(s)>> \o readline(Tail(s))

-----------------------------------------------------------------------------
(* The identifier store and the identifier resolver.                       *)

IdChars == {"a", "b"}
FileChars == IdChars \cup Whitespace
AnsChars == {"1", "2", " ", "x"}

\* What the operator may type at the prompt.
Answers == SeqsUpTo(AnsChars, MaxAnsLen)

read_saved_sharelatex_document(file) ==
    IF file = None THEN None ELSE strip(readline(file))

\* The comparison of line 263 left out.
ids_conflict_always(given, saved) == TRUE

\* Line 263: the ids conflict.
ids_conflict(given, saved) == given # saved

\* The two choices of line 273 swapped.
chose_old_swapped(a) == strip(a) = <<"2">>

\* Line 273: int(ans.strip()) == 1, for the answers that leave the loop.
chose_old(a) == strip(a) = <<"1">>

\* Line 271: the answer ends the loop.
valid_choice(a) == strip(a) = <<"1">> \/ strip(a) = <<"2">>

\* Line 274 without its fatal error: the test never holds.
no_id_supplied_never(given, saved) == FALSE

\* Line 274: neither a supplied nor a saved id.
no_id_supplied(given, saved) == ~Truthy(saved) /\ ~Truthy(given)

\* Lines 260-264 and 274-279: determine_id() up to its return, its fatal
\* error or the first prompt.
determine_id ==
    /\ pc = "determine_id"
    /\ saved_id' = read_saved_sharelatex_document(state_file)
    /\ IF Truthy(id) /\ Truthy(saved_id')
       THEN IF ids_conflict(id, saved_id')
            THEN pc' = "prompt" /\ id' = id
            ELSE pc' = "ensure_git_repository_started" /\ id' = id
       ELSE IF no_id_supplied(id, saved_id')
            THEN pc' = "fatal" /\ id' = id
            ELSE IF Truthy(saved_id')
                 THEN pc' = "ensure_git_repository_started" /\ id' = saved_id'
                 ELSE pc' = "ensure_git_repository_started" /\ id' = id
    /\ log' = IF pc' = "fatal" THEN log \cup {"No id supplied!"} ELSE log
    /\ UNCHANGED <<argv, now, args, ans, prompts, state_file, gitignore, repo,
                   tree, detection, cmds>>

\* Lines 265-268: print the two ids and read the operator's answer.
prompt_input ==
    /\ pc = "prompt"
    /\ prompts < MaxPrompts
    /\ \E a \in Answers : ans' = a
    /\ prompts' = prompts + 1
    /\ pc' = "prompt_check"
    /\ UNCHANGED <<id, argv, now, args, saved_id, state_file, gitignore, repo,
                   tree, detection, trail>>

\* Lines 269-273: default a blank answer to '2', loop unless the answer is
\* a valid choice, and pick the id.  ans is dead once determine_id returns.
prompt_check ==
    /\ pc = "prompt_check"
    /\ LET a == IF strip(ans) = <<>> THEN <<"2">> ELSE ans
       IN  IF valid_choice(a)
           THEN /\ id' = IF chose_old(a) THEN saved_id ELSE id
                /\ pc' = "ensure_git_repository_started"
                /\ ans' = None
           ELSE /\ id' = id
                /\ pc' = "prompt"
                /\ ans' = a
    /\ UNCHANGED <<argv, now, args, saved_id, prompts, state_file, gitignore,
                   repo, tree, detection, trail>>

-----------------------------------------------------------------------------
(* Shell commands and git's output.                                        *)

\* Line 99 with Logger.error in place of Logger.fatal_error: the failure
\* is logged and run_cmd() returns.
run_cmd_fatal_returns(status, allow_fail) == FALSE

\* Lines 98-99: run_cmd() ends the run when the command failed and failure
\* is not allowed.
run_cmd_fatal(status, allow_fail) == ~allow_fail /\ status # 0

\* Lines 98-99: the log after a command that returned status.
run_cmd_log(status, allow_fail) ==
    IF ~allow_fail /\ status # 0 THEN log \cup {"Error executing"}
    ELSE log

\* Exit statuses a command may return.
ExitStatuses == {0, 1}

\* git's output, in tokens.  The program searches it for two phrases after
\* lower-casing it; the phrase of files_changed is cut into two tokens so
\* that the search has to match a contiguous run of tokens.
StatusTokens ==
    {"nothing to commit, ", "working directory clean",
     "Working directory clean", "working tree clean"}
RepoTokens ==
    {"On branch master", "fatal: ", "Not a git repository",
     "not a git repository"}

\* str.lower(), token by token.
lower_token(t) ==
    CASE t = "On branch master" -> "on branch master"
      [] t = "Working directory clean" -> "working directory clean"
      [] t = "Not a git repository" -> "not a git repository"
      [] OTHER -> t

lower(s) == [i \in DOMAIN s |-> lower_token(s[i])]

\* Python's  p in s  for strings.
Contains(s, p) ==
    \E i \in 0..(Len(s) - Len(p)) : SubSeq(s, i + 1, i + Len(p)) = p

NotARepoPhrase == <<"not a git repository">>
CleanPhrase == <<"nothing to commit, ", "working directory clean">>

\* Line 153.
is_git_repository(status) == ~Contains(lower(status), NotARepoPhrase)

\* Line 188 without lower().
files_changed_result_cased(o) == ~Contains(o, CleanPhrase)

\* Line 188.
files_changed_result(o) == ~Contains(lower(o), CleanPhrase)

GitStatus == <<"git status">>
GitInit == <<"git init">>
GitRevParse == <<"git rev-parse --show-toplevel">>
GitAddDot == <<"git add -A ", ".">>
GitAddIgnore == <<"git add -A ", "<toplevel>/.gitignore">>
GitStatusDot == <<"git status .">>
GitPush == <<"git push origin master">>

-----------------------------------------------------------------------------
(* The repository bootstrapper.                                            *)

\* Lines 159-161, with is_git_repository (151-153) and init_git_repository
\* (106-108).  'git status' may fail; 'git init' may not.
ensure_git_repository_started ==
    /\ pc = "ensure_git_repository_started"
    /\ \E status \in SeqsUpTo(RepoTokens, MaxOutLen), st \in ExitStatuses :
          IF run_cmd_fatal(st, TRUE)
          THEN /\ pc' = "fatal"
               /\ cmds' = Append(cmds, GitStatus)
               /\ log' = run_cmd_log(st, TRUE)
               /\ repo' = repo
          ELSE IF is_git_repository(status)
          THEN /\ pc' = "ensure_gitignore_is_fine"
               /\ cmds' = Append(cmds, GitStatus)
               /\ log' = log
               /\ repo' = repo
          ELSE \E init \in ExitStatuses :
               /\ cmds' = cmds \o <<GitStatus, GitInit>>
               /\ log' = run_cmd_log(init, FALSE)
               /\ IF run_cmd_fatal(init, FALSE)
                  THEN pc' = "fatal" /\ repo' = repo
                  ELSE pc' = "ensure_gitignore_is_fine" /\ repo' = TRUE
    /\ UNCHANGED <<id, argv, now, args, resolver, state_file, gitignore, tree,
                   detection>>

\* The entries of lines 142-144, in the order they are written.
IgnoreEntries == <<"sharelatex-git.py", "sharelatex-git", ".sharelatex-git">>

IgnoreTokens == {"sharelatex-git.py", "sharelatex-git", ".sharelatex-git",
                 "foo", " ", "\n"}

\* file.readlines(): the lines of a text, each with its terminator.
RECURSIVE readlines(_)
readlines(s) ==
    IF s = <<>> THEN <<>>
    ELSE LET l == readline(s)
         IN  <<l>> \o readlines(SubSeq(s, Len(l) + 1, Len(s)))

\* Lines 130-134: the stripped lines of the file, [] when it cannot be read.
gitignore_lines(file, can_read) ==
    IF file = None \/ ~can_read THEN <<>>
    ELSE LET ls == readlines(file) IN [i \in DOMAIN ls |-> strip(ls[i])]

\* Lines 138-140: what write_if_not_there(s) writes.
write_if_not_there(lines, s) ==
    IF \A i \in DOMAIN lines : lines[i] # <<s>> THEN <<s, "\n">> ELSE <<>>

\* Lines 130-146 on the file itself: the content after the update.  Opening
\* the file for appending creates it; when it cannot be opened the update
\* is given up with a warning.
gitignore_after(file, can_read, can_write) ==
    IF ~can_write THEN file
    ELSE LET lines == gitignore_lines(file, can_read)
             old == IF file = None THEN <<>> ELSE file
         IN  old \o write_if_not_there(lines, IgnoreEntries[1])
                 \o write_if_not_there(lines, IgnoreEntries[2])
                 \o write_if_not_there(lines, IgnoreEntries[3])

\* 'git rev-parse --show-toplevel' succeeds only inside a work tree.
RevParseStatuses == IF repo THEN ExitStatuses ELSE ExitStatuses \ {0}

\* Lines 128-146, with get_git_ignore (120-122) and get_base_git_root
\* (114-115).  Reads and Writes say whether the file can be read as text
\* (it can be opened for reading and its bytes can be decoded) and whether
\* it can be opened for appending.
ensure_gitignore_is_fine(Reads, Writes) ==
    /\ pc = "ensure_gitignore_is_fine"
    /\ cmds' = Append(cmds, GitRevParse)
    /\ \E st \in RevParseStatuses, can_read \in Reads, can_write \in Writes :
          IF run_cmd_fatal(st, FALSE)
          THEN /\ pc' = "fatal"
               /\ log' = run_cmd_log(st, FALSE)
               /\ UNCHANGED gitignore
          ELSE /\ pc' = "fetch_updates"
               /\ gitignore' = gitignore_after(gitignore, can_read, can_write)
               /\ log' = IF can_write THEN log
                            ELSE log \cup {"Can't edit .gitignore file"}
    /\ UNCHANGED <<id, argv, now, args, resolver, state_file, repo, tree,
                   detection>>


-----------------------------------------------------------------------------
(* The order of the steps of go().                                         *)

\* Line 351 without its test.
commit_step_always(dc) == TRUE

\* Line 351: the commit step runs.
commit_step_enabled(dc) == ~dc

\* Lines 364-367: what follows the commit step.
after_commit_step ==
    IF sharelatex_push_flag THEN "sharelatex_push"
    ELSE "write_saved_sharelatex_document"

\* Lines 351 and 364: what follows the fetch.
after_fetch ==
    IF commit_step_enabled(dont_commit) THEN "files_changed"
    ELSE after_commit_step

\* Line 359 without its test: every commit is pushed.
after_commit_pushes == "git_push"

\* Lines 359-360: what follows the commit.
after_commit == IF push THEN "git_push" ELSE after_commit_step

-----------------------------------------------------------------------------
(* The archive fetcher.                                                    *)

\* The paths a project may hold: a file at the top of the archive and a
\* file of the same name inside the 'LaTeX' folder.
Paths == {[dir |-> ".", name |-> "main.tex"],
          [dir |-> "LaTeX", name |-> "main.tex"]}

\* The archives the server may send.
Archives == SUBSET Paths \ {{}}

Titles == {<<"Thesis">>}

\* Line 349 with the default of line 196 instead.
go_skip_LaTeX_folder_default == TRUE

\* Line 349: the value go() passes for skip_LaTeX_folder.
go_skip_LaTeX_folder == FALSE

\* os.listdir('LaTeX') of line 218.
latex_entries(files) == {f \in files : f.dir = "LaTeX"}

\* Lines 218-220 raise: listdir when there is no 'LaTeX' folder, shutil.move
\* when the current directory already holds an entry of that name.
normalization_raises(files) ==
    \/ latex_entries(files) = {}
    \/ \E f \in latex_entries(files) :
          [dir |-> ".", name |-> f.name] \in files

\* Lines 218-220 when nothing raises: every entry of 'LaTeX' is moved up
\* and the folder is removed.
normalized(files) ==
    (files \ latex_entries(files))
        \cup {[dir |-> ".", name |-> f.name] : f \in latex_entries(files)}

\* Lines 209-211 without the fatal error: the run goes on.
bad_zip_pc_goes_on == after_fetch

\* Lines 209-211: where the handler of BadZipFile leaves the run.
bad_zip_pc == "fatal"

\* Lines 196-226.  The download may fail, leaving a partial file or none.
\* The extraction may succeed, raise BadZipFile (for a file that is no
\* archive, or for a damaged entry after others were extracted) or raise
\* another exception, which nothing catches.  The title is found or not.
fetch_updates(skip_LaTeX_folder) ==
    /\ pc = "fetch_updates"
    /\ \E retrieved \in BOOLEAN, a \in Archives,
          result \in {"ok", "BadZipFile", "raise"},
          t \in Titles \cup {None} :
          IF ~retrieved
          THEN /\ pc' = "fatal"
               /\ log' = log \cup {"Could not retrieve files"}
               /\ \E partial \in BOOLEAN : zip_file' = partial
               /\ UNCHANGED <<archive, cwd, project_title>>
          ELSE IF result # "ok"
          THEN /\ archive' = a
               /\ \E part \in SUBSET a \ {a} : cwd' = cwd \cup part
               /\ zip_file' = (result # "BadZipFile")
               /\ pc' = IF result = "BadZipFile" THEN bad_zip_pc ELSE "crashed"
               /\ log' = IF result = "BadZipFile"
                         THEN log \cup {"Downloaded file is not a zip file"}
                         ELSE log
               /\ UNCHANGED project_title
          ELSE IF skip_LaTeX_folder /\ normalization_raises(cwd \cup a)
          THEN /\ archive' = a
               /\ cwd' = cwd \cup a
               /\ zip_file' = FALSE
               /\ pc' = "crashed"
               /\ UNCHANGED <<project_title, log>>
          ELSE /\ archive' = a
               /\ cwd' = IF skip_LaTeX_folder THEN normalized(cwd \cup a)
                         ELSE cwd \cup a
               /\ zip_file' = FALSE
               /\ project_title' = t
               /\ pc' = after_fetch
               /\ log' = log
    /\ UNCHANGED <<id, argv, now, args, resolver, state_file, gitignore, repo,
                   detection, cmds>>

-----------------------------------------------------------------------------
(* The change and commit coordinator.                                      *)

\* Lines 186-188, and the branch of go() at lines 352 and 361.
files_changed ==
    /\ pc = "files_changed"
    /\ cmds' = Append(cmds, GitStatusDot)
    /\ \E st \in ExitStatuses, o \in SeqsUpTo(StatusTokens, MaxOutLen) :
          /\ log' = run_cmd_log(st, FALSE)
          /\ IF run_cmd_fatal(st, FALSE)
             THEN pc' = "fatal" /\ UNCHANGED <<out, changed>>
             ELSE /\ out' = o
                  /\ IF files_changed_result(o)
                     THEN pc' = "commit_all_changes" /\ changed' = "True"
                     ELSE pc' = after_commit_step /\ changed' = "False"
    /\ UNCHANGED <<id, argv, now, args, resolver, state_file, gitignore, repo,
                   tree>>

\* get_timestamp() (lines 43-44) when the clock shows t: the seconds
\* follow the clock.
ClockTexts ==
    <<"2024/01/02 03:04:05", "2024/01/02 03:04:06", "2024/01/02 03:04:07",
      "2024/01/02 03:04:08", "2024/01/02 03:04:09">>

get_timestamp(t) == ClockTexts[t + 1]

Messages == {<<>>, <<"Draft intro">>}

\* Lines 174 and 176 with a timestamp taken when commit_all_changes was
\* entered.
commit_timestamp_at_entry(entered, built) == entered

\* Lines 174 and 176: get_timestamp() is called while the command is
\* built, after the staging commands have run.
commit_timestamp(entered, built) == built

\* Lines 173-180: the commit command.
commit_cmd(msg, title, ts) ==
    LET cmd == IF Truthy(title)
               THEN <<"git commit -m", "\"", "[sharelatex-git-integration ">>
                        \o title \o <<" ", ts, "]">>
               ELSE <<"git commit -m", "\"", "[sharelatex-git-integration ",
                      ts, "]">>
    IN  IF Truthy(msg) THEN cmd \o <<" ">> \o msg \o <<"\"">>
        ELSE cmd \o <<"\"">>

\* Lines 171-180 without the staging of the exclusion file.
commit_all_changes_cmds_one_add(msg, title, ts) ==
    <<GitAddDot, commit_cmd(msg, title, ts)>>

\* Lines 171-180: the commands of commit_all_changes, in the order they run
\* (get_git_ignore() runs 'git rev-parse' before the second 'git add').
commit_all_changes_cmds(msg, title, ts) ==
    <<GitAddDot, GitRevParse, GitAddIgnore, commit_cmd(msg, title, ts)>>

\* Line 172: 'git add -A <file>' fails for a path that matches no file.
AddIgnoreStatuses ==
    IF gitignore = None THEN ExitStatuses \ {0} ELSE ExitStatuses

\* Lines 170-180, and lines 359-360 of go().  The run ends at the first
\* command that fails.  The staging commands take one of Durations ticks
\* of the clock.
commit_all_changes(Durations) ==
    /\ pc = "commit_all_changes"
    /\ \E d \in Durations, st \in ExitStatuses :
          LET built == now + d
              ts == get_timestamp(commit_timestamp(now, built))
              all == commit_all_changes_cmds(message, project_title, ts)
          IN  \E n \in 1..Len(all) :
                 /\ n < Len(all) => run_cmd_fatal(st, FALSE)
                 /\ n > 3 => 0 \in AddIgnoreStatuses
                 /\ cmds' = cmds \o SubSeq(all, 1, n)
                 /\ pc' = IF run_cmd_fatal(st, FALSE) THEN "fatal"
                          ELSE after_commit
                 /\ log' = run_cmd_log(st, FALSE)
                 /\ now' = built
    /\ out' = None
    /\ UNCHANGED <<id, argv, args, resolver, state_file, gitignore, repo,
                   tree, changed>>

-----------------------------------------------------------------------------
(* The push coordinator and the end of the run.                            *)

\* Lines 284-288.
git_push ==
    /\ pc = "git_push"
    /\ cmds' = Append(cmds, GitPush)
    /\ \E st \in ExitStatuses :
          /\ pc' = IF run_cmd_fatal(st, FALSE) THEN "fatal"
                   ELSE after_commit_step
          /\ log' = run_cmd_log(st, FALSE)
    /\ UNCHANGED <<id, argv, now, args, resolver, state_file, gitignore, repo,
                   tree, detection>>

\* Lines 293-337: the upload returns, or one of its statements raises (the
\* import of requests, a page without the token, the missing archive).
sharelatex_push ==
    /\ pc = "sharelatex_push"
    /\ \E raised \in BOOLEAN :
          pc' = IF raised THEN "crashed" ELSE "write_saved_sharelatex_document"
    /\ out' = None
    /\ UNCHANGED <<id, argv, now, args, resolver, state_file, gitignore, repo,
                   tree, changed, trail>>

\* Line 250 without the line terminator.
saved_document_text_bare(i) == i

\* Line 250: the text written to the state file.
saved_document_text(i) == i \o <<"\n">>

\* Lines 245-252, and line 368 of go().
write_saved_sharelatex_document ==
    /\ pc = "write_saved_sharelatex_document"
    /\ \E can_write \in BOOLEAN :
          IF can_write
          THEN /\ state_file' = saved_document_text(id)
               /\ log' = log
          ELSE /\ state_file' = state_file
               /\ log' = log \cup {"Problem creating .sharelatex-git file"}
    /\ pc' = "done"
    /\ out' = None
    /\ UNCHANGED <<id, argv, now, args, resolver, gitignore, repo, tree,
                   changed, cmds>>

\* Line 89: fatal_error() ends the process with exit(), called without an
\* argument: SystemExit(None), which the interpreter turns into status 0.
fatal_error_status == 0

\* An exception that nothing catches ends the interpreter with status 1.
uncaught_exception_status == 1

\* Line 418 returns and the script ends: status 0.
end_of_script_status == 0

\* The exit status of the process once the run has ended.
exit_status ==
    CASE pc = "fatal" -> fatal_error_status
      [] pc = "crashed" -> uncaught_exception_status
      [] pc = "done" -> end_of_script_status

-----------------------------------------------------------------------------
(* The input parser.                                                       *)

\* The positional argument, in tokens.  A URL is a scheme, a host and a
\* path; the path and a plain argument are made of the tokens below.  The
\* letters and digits of an argument are the tokens of AlnumTokens, and
\* every other token starts with a character that is neither.
Schemes == {"https:", "HTTP:"}
Host == "//host"
AlnumTokens == {"a"}
PathTokens == AlnumTokens \cup {"/project/", "/Project/", "-", "/download/zip"}

\* str.lower() of an argument, token by token.
lower_arg_token(t) ==
    CASE t = "HTTP:" -> "http:"
      [] t = "/Project/" -> "/project/"
      [] OTHER -> t

lower_arg(i) == [k \in DOMAIN i |-> lower_arg_token(i[k])]

\* Line 376: the argument holds 'http:' or 'https:' in some letter case.
looks_like_url(i) ==
    Contains(lower_arg(i), <<"http:">>) \/ Contains(lower_arg(i), <<"https:">>)

\* The longest run of letters and digits at the start of a text:
\* what [a-zA-Z0-9]* matches there.
RECURSIVE alnum_run(_)
alnum_run(s) ==
    IF s # <<>> /\ Head(s) \in AlnumTokens
    THEN <<Head(s)>> \o alnum_run(Tail(s))
    ELSE <<>>

\* A token of a path starts with '/'.
StartsWithSlash(t) == t \in {"/project/", "/Project/", "/download/zip"}

\* The text from the first token that starts with '/'.
RECURSIVE from_first_slash(_)
from_first_slash(s) ==
    IF s = <<>> \/ StartsWithSlash(Head(s)) THEN s
    ELSE from_first_slash(Tail(s))

\* urllib.parse.urlsplit(i).path (line 378) for an argument that starts
\* with a scheme: the scheme goes; after '//' the host goes, up to the next
\* '/'; what is left is the path (the arguments have no '?' and no '#').
urlsplit_path(i) ==
    LET rest == Tail(i)
    IN  IF rest # <<>> /\ Head(rest) = Host
        THEN from_first_slash(Tail(rest))
        ELSE rest

\* Line 379-380: p.search(path) compiled with re.IGNORECASE: the places
\* where '/project/' occurs in the path, in any letter case.
project_matches(path) ==
    {k \in DOMAIN path : lower_arg_token(path[k]) = "/project/"}

\* Line 380: group(1) of the first match: the letters and digits that
\* follow '/project/', none when something else follows or nothing does.
project_group(path) ==
    LET k == CHOOSE m \in project_matches(path) :
                 \A n \in project_matches(path) : m <= n
    IN  alnum_run(SubSeq(path, k + 1, Len(path)))

\* Line 385: p.match(i) for [a-zA-Z0-9]*: there is a match at the start of
\* every text, of the run of letters and digits found there, and a match
\* object is true whatever it matched.
plain_id_matches(i) == Len(alnum_run(i)) >= 0

\* Lines 375-388: what extract_id_from_input returns (None when the
\* function falls off its end), and what it logs.  A search that finds
\* nothing returns None, and group(1) of None raises: line 382.
extract_id_from_input(i) ==
    IF looks_like_url(i)
    THEN IF project_matches(urlsplit_path(i)) = {}
         THEN [ret |-> None, fatal |-> TRUE,
               logged |-> {"Unrecognized id supplied [http/https]"}]
         ELSE [ret |-> project_group(urlsplit_path(i)), fatal |-> FALSE,
               logged |-> {}]
    ELSE IF plain_id_matches(i)
         THEN [ret |-> i, fatal |-> FALSE, logged |-> {}]
         ELSE [ret |-> None, fatal |-> FALSE,
               logged |-> {"Unrecognized id supplied"}]

\* Lines 393-413 and line 418: parse_input() with no positional argument
\* or one, and the call of go() with what it returns.  The options are
\* passed on as optparse left them.
parse_input ==
    /\ pc = "parse_input"
    /\ LET r == IF argv = None
                THEN [ret |-> None, fatal |-> FALSE, logged |-> {}]
                ELSE extract_id_from_input(argv)
       IN  /\ given_id' = r.ret
           /\ id' = r.ret
           /\ log' = log \cup r.logged
           /\ pc' = IF r.fatal THEN "fatal" ELSE "determine_id"
    /\ UNCHANGED <<argv, now, message, push, sharelatex_push_flag,
                   dont_commit, resolver, state_file, gitignore, repo, tree,
                   detection, cmds>>

-----------------------------------------------------------------------------
(* A run of go().                                                          *)

\* The ids a run is given and the state files earlier runs have left.
RunIds == {<<c>> : c \in IdChars}
RunStateFiles == {saved_document_text(i) : i \in RunIds}

\* The exclusion files a run starts from: missing, or one line that the
\* user's editor left without a terminator.
RunIgnoreFiles == {None, <<"foo">>}

\* The project files a run starts from: a fresh directory.
RunTrees == {{}}

Init ==
    /\ pc = "determine_id"
    /\ given_id \in {None} \cup RunIds
    /\ argv = given_id
    /\ now = 0
    /\ id = given_id
    /\ message \in Messages
    /\ push \in BOOLEAN
    /\ sharelatex_push_flag \in BOOLEAN
    /\ dont_commit \in BOOLEAN
    /\ saved_id = None
    /\ ans = None
    /\ prompts = 0
    /\ state_file \in {None} \cup RunStateFiles
    /\ gitignore \in RunIgnoreFiles
    /\ repo \in BOOLEAN
    /\ zip_file = FALSE
    /\ archive = {}
    /\ cwd \in RunTrees
    /\ project_title = None
    /\ out = None
    /\ changed = "not run"
    /\ cmds = <<>>
    /\ log = {}

Next ==
    \/ determine_id
    \/ prompt_input
    \/ prompt_check
    \/ ensure_git_repository_started
    \/ ensure_gitignore_is_fine(BOOLEAN, BOOLEAN)
    \/ fetch_updates(go_skip_LaTeX_folder)
    \/ files_changed
    \/ commit_all_changes({0})
    \/ git_push
    \/ sharelatex_push
    \/ write_saved_sharelatex_document

Spec == Init /\ [][Next]_vars

-----------------------------------------------------------------------------
(* The resolver alone, over every command-line id and every state file.    *)

InitResolve ==
    /\ pc = "determine_id"
    /\ given_id \in {None} \cup SeqsUpTo(IdChars, MaxIdLen)
    /\ argv = given_id
    /\ now = 0
    /\ id = given_id
    /\ state_file \in {None} \cup SeqsUpTo(FileChars, MaxFileLen)
    /\ message = <<>>
    /\ push = FALSE
    /\ sharelatex_push_flag = FALSE
    /\ dont_commit = FALSE
    /\ saved_id = None
    /\ ans = None
    /\ prompts = 0
    /\ gitignore = None
    /\ repo = FALSE
    /\ zip_file = FALSE
    /\ archive = {}
    /\ cwd = {}
    /\ project_title = None
    /\ out = None
    /\ changed = "not run"
    /\ cmds = <<>>
    /\ log = {}

NextResolve == determine_id \/ prompt_input \/ prompt_check

SpecResolve == InitResolve /\ [][NextResolve]_vars

-----------------------------------------------------------------------------
(* The exclusion-file update alone, over every exclusion file, run after   *)
(* run in a repository whose .gitignore can be read and written.           *)

InitIgnore ==
    /\ pc = "ensure_gitignore_is_fine"
    /\ given_id = None
    /\ argv = None
    /\ now = 0
    /\ id = <<"a">>
    /\ message = <<>>
    /\ push = FALSE
    /\ sharelatex_push_flag = FALSE
    /\ dont_commit = FALSE
    /\ saved_id = None
    /\ ans = None
    /\ prompts = 0
    /\ state_file = None
    /\ gitignore \in {None} \cup SeqsUpTo(IgnoreTokens, MaxIgnoreLen)
    /\ repo = TRUE
    /\ zip_file = FALSE
    /\ archive = {}
    /\ cwd = {}
    /\ project_title = None
    /\ out = None
    /\ changed = "not run"
    /\ cmds = <<>>
    /\ log = {}

\* Line 418: the tool is run again and reaches line 348 again.
next_run_ensure_gitignore ==
    /\ pc = "fetch_updates"
    /\ Len(cmds) < MaxUpdates
    /\ pc' = "ensure_gitignore_is_fine"
    /\ UNCHANGED <<id, argv, now, args, resolver, state_file, gitignore, repo,
                   tree, detection, trail>>

NextIgnore ==
    \/ ensure_gitignore_is_fine({TRUE}, {TRUE})
    \/ next_run_ensure_gitignore

SpecIgnore == InitIgnore /\ [][NextIgnore]_vars

-----------------------------------------------------------------------------
(* The parser and the resolver, over every argument and the state files    *)
(* earlier runs have left.                                                 *)

MaxArgLen == 3       \* longest path of a URL and longest plain argument

\* The arguments: a plain text, or a URL with a scheme, a host and a path.
Arguments ==
    SeqsUpTo(PathTokens, MaxArgLen)
        \cup {<<s, Host>> \o p : s \in Schemes,
                                 p \in SeqsUpTo(PathTokens, MaxArgLen)}

InitInput ==
    /\ pc = "parse_input"
    /\ argv \in {None} \cup Arguments
    /\ now = 0
    /\ given_id = None
    /\ id = None
    /\ state_file \in {None} \cup RunStateFiles
    /\ message = <<>>
    /\ push = FALSE
    /\ sharelatex_push_flag = FALSE
    /\ dont_commit = FALSE
    /\ saved_id = None
    /\ ans = None
    /\ prompts = 0
    /\ gitignore = None
    /\ repo = FALSE
    /\ zip_file = FALSE
    /\ archive = {}
    /\ cwd = {}
    /\ project_title = None
    /\ out = None
    /\ changed = "not run"
    /\ cmds = <<>>
    /\ log = {}

NextInput == parse_input \/ determine_id \/ prompt_input \/ prompt_check

SpecInput == InitInput /\ [][NextInput]_vars

-----------------------------------------------------------------------------
(* The commit alone, over every title and every free text, in a run that   *)
(* has detected changes.                                                   *)

MaxTextLen == 2      \* longest title and longest free text, in words
MaxClock == 2        \* last tick of the clock

TitleWords == {"Thesis", " "}
MessageWords == {"Draft", " ", "intro"}

CommitTitles == {None} \cup (SeqsUpTo(TitleWords, MaxTextLen) \ {<<>>})
CommitMessages == SeqsUpTo(MessageWords, MaxTextLen)

InitCommit ==
    /\ pc = "commit_all_changes"
    /\ argv = <<"a">>
    /\ now = 0
    /\ given_id = <<"a">>
    /\ id = <<"a">>
    /\ message \in CommitMessages
    /\ push \in BOOLEAN
    /\ sharelatex_push_flag = FALSE
    /\ dont_commit = FALSE
    /\ saved_id = None
    /\ ans = None
    /\ prompts = 0
    /\ state_file = None
    /\ gitignore \in {None, gitignore_after(None, TRUE, TRUE)}
    /\ repo = TRUE
    /\ zip_file = FALSE
    /\ archive \in Archives
    /\ cwd = archive
    /\ project_title \in CommitTitles
    /\ out = <<>>
    /\ changed = "True"
    /\ cmds = <<GitStatus, GitRevParse, GitStatusDot>>
    /\ log = {}

NextCommit == commit_all_changes(0..(MaxClock - now))

SpecCommit == InitCommit /\ [][NextCommit]_vars

-----------------------------------------------------------------------------
(* The exclusion-file update alone, over every exclusion file, whether or  *)
(* not the file can be read as text and can be written.                    *)

NextIgnoreAnyFile ==
    \/ ensure_gitignore_is_fine(BOOLEAN, BOOLEAN)
    \/ next_run_ensure_gitignore

SpecIgnoreAnyFile == InitIgnore /\ [][NextIgnoreAnyFile]_vars

-----------------------------------------------------------------------------
(* The properties checked.                                                 *)

\* The persisted identifier: what the state file holds for the resolver.
Persisted == read_saved_sharelatex_document(state_file)

\* determine_id has returned to go().
Resolved ==
    pc \notin {"parse_input", "determine_id", "prompt", "prompt_check", "fatal"}

IsCommit(c) == c[1] = "git commit -m"
IsStaging(c) == c[1] = "git add -A "
Commits == {i \in DOMAIN cmds : IsCommit(cmds[i])}
Stagings == {i \in DOMAIN cmds : IsStaging(cmds[i])}
Ran(c) == \E i \in DOMAIN cmds : cmds[i] = c

\* C1: when the supplied and the persisted identifier are not in conflict
\* (only one is present, or both are present and equal), determine_id
\* returns the available identifier and the operator is never asked.
C1_NoConflictNoPrompt ==
    LET only_given == Truthy(given_id) /\ ~Truthy(Persisted)
        only_saved == ~Truthy(given_id) /\ Truthy(Persisted)
        same == Truthy(given_id) /\ given_id = Persisted
    IN  (only_given \/ only_saved \/ same) =>
            /\ prompts = 0
            /\ pc \notin {"prompt", "prompt_check", "fatal"}
            /\ Resolved =>
                  id = IF only_saved THEN Persisted ELSE given_id

\* C1, reached: both present and equal, returned without a prompt.
C1_Witness ==
    /\ Resolved
    /\ Truthy(given_id)
    /\ given_id = Persisted
    /\ id = given_id
    /\ prompts = 0

\* An answer that ends the prompt loop: '1', '2' or blank once trimmed.
EndsLoop(a) == strip(a) \in {<<>>, <<"1">>, <<"2">>}

\* C2: when both identifiers are present and differ, determine_id prompts;
\* every answer other than '1', '2' or blank (trimmed) leads to a new prompt
\* and selects nothing; such an answer ends the resolution at once, with the
\* persisted identifier for '1' and the supplied one for '2' or blank.
C2_PromptLoop ==
    [][ /\ (/\ pc = "determine_id"
            /\ Truthy(given_id) /\ Truthy(Persisted)
            /\ given_id # Persisted) => pc' = "prompt"
        /\ pc = "prompt" => pc' = "prompt_check" /\ id' = id
        /\ pc = "prompt_check" =>
              IF EndsLoop(ans)
              THEN /\ pc' = "ensure_git_repository_started"
                   /\ id' = IF strip(ans) = <<"1">> THEN Persisted
                            ELSE given_id
              ELSE pc' = "prompt" /\ id' = id
      ]_vars

\* C2, reached: a second prompt (so the first answer was refused) that
\* chose the persisted identifier.
C2_Witness ==
    /\ Resolved
    /\ prompts = 2
    /\ id = Persisted
    /\ id # given_id

\* The run has ended: go() returned, a fatal error, an uncaught exception.
Ended == pc \in {"done", "fatal", "crashed"}

\* C3 as stated, for the runs it singles out: a run whose git push failed
\* has, when the process ends, overwritten the state file with its id.
C3_WrittenWhenPushFails ==
    (Ended /\ Ran(GitPush) /\ "Error executing" \in log) =>
        state_file = id \o <<"\n">>

\* C3, amended: the state file is written only by the last step of go():
\* a run that reaches the end of go() (one that pushes nothing included)
\* leaves the identifier of the run in it, unless that write fails with a
\* warning; a run ended by a fatal error or an exception takes no further
\* step and leaves the file as it was.
C3_WrittenAtEndOfGo ==
    /\ [](pc = "done" /\ "Problem creating .sharelatex-git file" \notin log
            => state_file = id \o <<"\n">>)
    /\ [][pc' # "done" => state_file' = state_file]_vars
    /\ [](pc \in {"fatal", "crashed"} => ~ENABLED Next)

\* C3, reached: a run that pushed nothing and replaced the persisted
\* identifier.
C3_Witness ==
    /\ pc = "done"
    /\ ~Ran(GitPush)
    /\ Truthy(saved_id) /\ saved_id # id
    /\ state_file = id \o <<"\n">>

\* C4: in no-commit mode the run never invokes 'git status .', a staging
\* command or 'git commit'.
C4_NoCommitMode ==
    dont_commit => ~Ran(GitStatusDot) /\ Stagings = {} /\ Commits = {}

\* C4, reached: a no-commit run that fetched the archive and finished.
C4_Witness == dont_commit /\ pc = "done" /\ archive # {} /\ archive \subseteq cwd

\* The clean-state phrase occurs in o, compared case-insensitively.
CleanIn(o) ==
    \E i \in 1..(Len(o) - 1) :
        /\ o[i] = "nothing to commit, "
        /\ o[i + 1] \in {"working directory clean", "Working directory clean"}

\* C5: when the output of 'git status .' contains the clean-state phrase
\* (case-insensitively), files_changed reports no changes, and a run in
\* which it reported no changes invokes no staging and no commit command.
C5_CleanMeansNoCommit ==
    /\ (out # None /\ CleanIn(out)) =>
          changed = "False" /\ pc # "commit_all_changes"
    /\ changed = "False" => Stagings = {} /\ Commits = {}

\* C5, reached: the phrase in another case, found by a detection that
\* returned.
C5_Witness ==
    /\ out = <<"nothing to commit, ", "Working directory clean">>
    /\ changed = "False"
    /\ pc \in {"write_saved_sharelatex_document", "sharelatex_push"}

\* C6 as stated: a run that reported changes has issued exactly one commit
\* by the time it ends.
C6_ExactlyOneCommit ==
    (Ended /\ ~dont_commit /\ changed = "True") => Cardinality(Commits) = 1

\* C6, amended: a run issues at most one commit, only when it is not in
\* no-commit mode and change detection reported changes, and only right
\* after 'git add -A .', the top-level query and 'git add -A <exclusion
\* file>' in this order; a run that reported changes and got past the
\* staging has issued exactly one, and so has every such run that is not
\* ended by a failing staging command.
C6_OneCommitAfterStaging ==
    /\ Cardinality(Commits) <= 1
    /\ \A i \in Commits :
          /\ ~dont_commit /\ changed = "True"
          /\ i > 3
          /\ cmds[i - 3] = GitAddDot
          /\ cmds[i - 2] = GitRevParse
          /\ cmds[i - 1] = GitAddIgnore
          /\ Stagings = {i - 3, i - 1}
    /\ (changed = "True" /\ pc \notin {"commit_all_changes", "fatal"}) =>
          Cardinality(Commits) = 1
    /\ (changed = "True" /\ pc = "fatal" /\ Commits = {}) =>
          Stagings # {} /\ \A i \in Stagings : i >= Len(cmds) - 2

\* C6, reached: a finished run with its one commit.
C6_Witness == pc = "done" /\ Cardinality(Commits) = 1

\* C7 as stated: an update of the exclusion file that follows an earlier
\* update leaves the file as it was.
C7_Idempotent ==
    [][(/\ pc = "ensure_gitignore_is_fine"
        /\ Len(cmds) >= 1
        /\ pc' = "fetch_updates") => gitignore' = gitignore]_vars

\* The lines of a file without their terminators.
PlainLines(file) ==
    IF file = None THEN {}
    ELSE {rstrip(readlines(file)[i]) : i \in DOMAIN readlines(file)}

\* C8 as stated, for the runs that logged no warning: at the fetch the
\* current directory is inside a repository and each required entry is a
\* line of the exclusion file.
C8_BootstrapGuarantee ==
    (pc = "fetch_updates" /\ log = {}) =>
        /\ repo
        /\ \A i \in DOMAIN IgnoreEntries :
              <<IgnoreEntries[i]>> \in PlainLines(gitignore)

\* C9: a payload that fails archive validation ends the run at once: the
\* download is deleted, nothing but extracted entries has been added to the
\* directory, no later command runs, the state file is left alone, and no
\* step follows.
C9_BadZipIsFatal ==
    /\ [][("Downloaded file is not a zip file" \in log') =>
            /\ pc' = "fatal"
            /\ zip_file' = FALSE
            /\ cwd' \subseteq cwd \cup archive'
            /\ cmds' = cmds
            /\ state_file' = state_file]_vars
    /\ []("Downloaded file is not a zip file" \in log =>
            /\ ~ENABLED Next
            /\ ~Ran(GitStatusDot) /\ ~Ran(GitPush)
            /\ Stagings = {} /\ Commits = {})

\* C9, reached: a damaged archive, part of which was extracted.
C9_Witness ==
    /\ "Downloaded file is not a zip file" \in log
    /\ cwd # {}
    /\ pc = "fatal"

\* The fetch has returned to go().
Fetched ==
    pc \in {"files_changed", "commit_all_changes", "git_push",
            "sharelatex_push", "write_saved_sharelatex_document", "done"}

\* C10 as stated: once the fetch has returned, every entry of the 'LaTeX'
\* folder has been moved up and the folder is gone.
C10_Normalized == Fetched => latex_entries(cwd) = {}

\* C10, amended: go() invokes the fetch with normalization disabled: once
\* the fetch has returned, every entry of the archive is where the
\* extraction put it, those of the 'LaTeX' folder included.
C10_NotNormalized == Fetched => archive \subseteq cwd

\* C10, reached: change detection is about to run on a tree that still has
\* the folder.
C10_Witness == pc = "files_changed" /\ latex_entries(cwd) # {}

\* A non-empty text of ASCII letters and digits: [A-Za-z0-9]+.
IsIdentifier(x) ==
    /\ x # None
    /\ x # <<>>
    /\ \A k \in DOMAIN x : x[k] \in AlnumTokens \cup IdChars

\* C11 as stated: the identifier determine_id hands to go(), which go()
\* passes to fetch_updates and writes to the state file, matches
\* [A-Za-z0-9]+ whatever the argument and the state file were.
C11_IdentifierClass == Resolved => IsIdentifier(id)

\* The argument is a URL: it holds a scheme.
HasScheme(i) == \E k \in DOMAIN i : i[k] \in Schemes

\* C15 as stated, for the arguments that are not empty: for an argument
\* that is not a URL, extract_id_from_input returns the argument when it is
\* made of letters and digits, and otherwise returns nothing and logs a
\* warning without ending the run.
C15_PlainArgumentChecked ==
    [][(pc = "parse_input" /\ argv \notin {None, <<>>} /\ ~HasScheme(argv)) =>
          IF IsIdentifier(argv)
          THEN given_id' = argv /\ log' = log /\ pc' = "determine_id"
          ELSE /\ given_id' = None
               /\ "Unrecognized id supplied" \in log'
               /\ pc' = "determine_id"
      ]_vars

\* The text x follows an occurrence of '/project/' in the argument i.
FollowsProject(i, x) ==
    \E k \in DOMAIN i :
        /\ i[k] \in {"/project/", "/Project/"}
        /\ k + Len(x) <= Len(i)
        /\ SubSeq(i, k + 1, k + Len(x)) = x

\* C16 as stated: for an argument that is a URL, extract_id_from_input
\* either returns an identifier that follows '/project/' in the path, or
\* ends the run with a fatal error because it could match none.
C16_UrlIdOrFatal ==
    [][(pc = "parse_input" /\ argv # None /\ HasScheme(argv)) =>
          \/ pc' = "fatal"
          \/ /\ pc' = "determine_id"
             /\ IsIdentifier(given_id')
             /\ FollowsProject(argv, given_id')
      ]_vars

\* C12: a run given no identifier (none, or an empty one) that finds no
\* persisted identifier is ended by the fatal error of determine_id and
\* has done nothing else: no command was run, nothing was downloaded or
\* extracted, the state file was not created, and no step follows.
C12_NoIdIsFatal ==
    (~Truthy(given_id) /\ ~Truthy(Persisted) /\ pc # "determine_id") =>
        /\ pc = "fatal"
        /\ log = {"No id supplied!"}
        /\ cmds = <<>>
        /\ ~zip_file /\ archive = {} /\ cwd = {}
        /\ state_file = None
        /\ gitignore \in RunIgnoreFiles
        /\ ~ENABLED Next

\* C12, reached: the fatal error of a run that was asked to commit and to
\* push.
C12_Witness ==
    /\ pc = "fatal"
    /\ "No id supplied!" \in log
    /\ given_id = None /\ state_file = None
    /\ push /\ ~dont_commit

\* The documented text of the commit message, for a title (or none), a
\* timestamp and a free text (or none).
DocumentedMessage(title, ts, text) ==
    CASE title # None /\ text # <<>> ->
            <<"[sharelatex-git-integration ">> \o title
                \o <<" ", ts, "]", " ">> \o text
      [] title # None /\ text = <<>> ->
            <<"[sharelatex-git-integration ">> \o title \o <<" ", ts, "]">>
      [] title = None /\ text # <<>> ->
            <<"[sharelatex-git-integration ", ts, "]", " ">> \o text
      [] OTHER -> <<"[sharelatex-git-integration ", ts, "]">>

\* C13: the commit command that commit_all_changes issues carries, between
\* its quotes, the documented message for the title and the free text of
\* the run, in each of the four combinations, with the timestamp that the
\* clock shows when the command is built.
C13_CommitMessageFormat ==
    [][(pc = "commit_all_changes" /\ Commits' # Commits) =>
          cmds'[Len(cmds')] =
              <<"git commit -m", "\"">>
                  \o DocumentedMessage(project_title, get_timestamp(now'),
                                       message)
                  \o <<"\"">>
      ]_vars

\* C13, reached: a commit without title and without free text, built
\* after the clock had moved on.
C13_Witness ==
    /\ Commits # {}
    /\ project_title = None /\ message = <<>>
    /\ now > 0
    /\ cmds[Len(cmds)] =
          <<"git commit -m", "\"", "[sharelatex-git-integration ",
            get_timestamp(now), "]", "\"">>

\* The lines of a text as they stand, without their terminators.
VerbatimLines(text) ==
    {LET l == readlines(text)[i]
     IN  IF l[Len(l)] = "\n" THEN SubSeq(l, 1, Len(l) - 1) ELSE l :
        i \in DOMAIN readlines(text)}

\* The entries numbered in S, each on a line of its own, in the fixed order.
EntriesText(S) ==
    (IF 1 \in S THEN <<IgnoreEntries[1], "\n">> ELSE <<>>)
        \o (IF 2 \in S THEN <<IgnoreEntries[2], "\n">> ELSE <<>>)
        \o (IF 3 \in S THEN <<IgnoreEntries[3], "\n">> ELSE <<>>)

\* C14 as stated: an update of the exclusion file keeps the old content as
\* a prefix of the new one, and what it adds is, for some of the required
\* entries that were not a line of the old content, each of them once on a
\* line of its own, in the order script name, binary name, state-file name.
C14_AppendOnly ==
    [][(pc = "ensure_gitignore_is_fine" /\ pc' = "fetch_updates") =>
          LET old == IF gitignore = None THEN <<>> ELSE gitignore
              new == IF gitignore' = None THEN <<>> ELSE gitignore'
          IN  /\ Len(new) >= Len(old)
              /\ SubSeq(new, 1, Len(old)) = old
              /\ \E S \in SUBSET DOMAIN IgnoreEntries :
                    /\ SubSeq(new, Len(old) + 1, Len(new)) = EntriesText(S)
                    /\ \A i \in S :
                          <<IgnoreEntries[i]>> \notin VerbatimLines(old)
      ]_vars

\* C17 as stated: a run ended by a fatal error exits with a status other
\* than zero, and a run that completes exits with status zero.
C17_ExitStatus ==
    /\ pc = "fatal" => exit_status # 0
    /\ pc = "done" => exit_status = 0

\* The warnings of the program (lines 146 and 252).
Warnings ==
    {"Can't edit .gitignore file", "Problem creating .sharelatex-git file"}

\* C18 as stated: a warning does not end the run: a run that has logged
\* nothing but warnings and has not reached the end of go() can carry out
\* its next step without a fatal error and without an exception.
C18_WarningsDoNotEndRun ==
    (log # {} /\ log \subseteq Warnings /\ ~Ended) =>
        ENABLED (Next /\ pc' \notin {"fatal", "crashed"})

\* The pushes among the commands of the run.
Pushes == {i \in DOMAIN cmds : cmds[i] = GitPush}

\* C19: 'git push origin master' is issued exactly in the runs that have
\* the push flag set and created a commit: it is issued once, right after
\* the commit of this run has succeeded, never in no-commit mode, never
\* when no changes were detected and never without the flag; and a run
\* with the flag set whose commit succeeded issues it.
C19_PushIffFlagAndCommit ==
    /\ [](Pushes # {} =>
            /\ push /\ ~dont_commit /\ changed = "True"
            /\ Pushes = {Len(cmds)}
            /\ Commits = {Len(cmds) - 1})
    /\ [][Pushes' # Pushes =>
            /\ pc = "git_push"
            /\ Commits = {Len(cmds)}
            /\ "Error executing" \notin log]_vars
    /\ []((push /\ Commits # {} /\ pc \notin {"git_push", "fatal"}) =>
            Pushes # {})
    /\ []((Commits # {} /\ "Error executing" \notin log /\ push) =>
            (pc = "git_push" \/ Pushes # {}))

\* C19, reached: a run that committed, pushed and finished.
C19_Witness ==
    /\ pc = "done"
    /\ push
    /\ Pushes = {Len(cmds)}
    /\ Commits = {Len(cmds) - 1}

\* The messages of the fatal errors (lines 99, 204, 211, 275, 382).
FatalMessages ==
    {"Error executing", "Could not retrieve files",
     "Downloaded file is not a zip file", "No id supplied!",
     "Unrecognized id supplied [http/https]"}

\* C20: the state file is written by no step but the last one of go(), at
\* most once, with the id of the run, and only in a run that has met no
\* fatal error; a run ended by a fatal error takes no further step, so its
\* state file still holds what determine_id read from it at the start,
\* whatever the operator chose at the prompt.
C20_StateFileOnlyAtEnd ==
    /\ [][state_file' # state_file =>
            /\ pc = "write_saved_sharelatex_document"
            /\ pc' = "done"
            /\ state_file' = id \o <<"\n">>
            /\ log \cap FatalMessages = {}]_vars
    /\ [](pc \in {"fatal", "done"} => ~ENABLED Next)
    /\ []((pc = "fatal" \/ log \cap FatalMessages # {}) =>
            /\ pc = "fatal"
            /\ Persisted = saved_id)

\* C20, reached: the operator chose the supplied id over the saved one, the
\* push failed, and the state file still holds the saved one.
C20_Witness ==
    /\ pc = "fatal"
    /\ prompts > 0
    /\ id = given_id /\ id # saved_id
    /\ Pushes # {}
    /\ state_file = saved_id \o <<"\n">>

====
